---- MODULE Spec2Model ----
(***************************************************************************)
(* Model of src/src/server.js: a registry of WhatsApp sessions (the Map    *)
(* `sessions`), the per-session WebSocket subscriber lists (the Map        *)
(* `wsClients`), the transport handles made by createSession together with *)
(* the handlers createSession attaches to them (connection.update and      *)
(* messages.upsert), the reconnection timers,                              *)
(* and the HTTP routes /api/pair, /api/send and /api/disconnect.           *)
(*                                                                         *)
(* The Baileys transport is outside the repository.  A handle is modelled  *)
(* by its lifecycle only (connecting -> open -> close); which event it     *)
(* emits next, and whether a call made on it succeeds, is chosen           *)
(* nondeterministically.                                                   *)
(*                                                                         *)
(* One action is one run of JavaScript between two suspension points of    *)
(* the single-threaded event loop.                                         *)
(***************************************************************************)
EXTENDS Integers, Sequences, FiniteSets, Bags, TLC

\* ------------------------------------------------------------------------
\* Bounds of the model
\* ------------------------------------------------------------------------

\* transport handles ever made by makeWASocket, WebSocket channels ever
\* accepted by wss, and /api/pair requests in their settle wait,
\* /api/disconnect requests suspended at logout() and messages.upsert
\* handlers suspended at sendMessage(), in total, at the time a further one
\* is made
MaxObjects == 3

\* ------------------------------------------------------------------------
\* Inputs
\* ------------------------------------------------------------------------

SessionIds == {"s1", "s2"}

\* a request may come without a sessionId (the empty string is falsy)
NoSessionId == ""

Digits == {"1", "2"}

\* the bodies of the /api/pair requests; a phone number is a sequence of
\* characters, and a missing field is the empty (falsy) value
PairBodies ==
    {[sessionId |-> "s1", phoneNumber |-> <<"+", "1", " ", "2">>],
     [sessionId |-> "s1", phoneNumber |-> <<>>],
     [sessionId |-> NoSessionId, phoneNumber |-> <<"+", "1", " ", "2">>]}

\* the bodies of the /api/send requests; `to` is a sequence of characters,
\* and a body may come without it
SendBodies ==
    {[sessionId |-> "s1", to |-> <<"1", "5">>, message |-> "hi"],
     [sessionId |-> "s1", to |-> <<"g", "@", "x">>, message |-> "hi"],
     [sessionId |-> "s1", message |-> "hi"],
     [sessionId |-> "s2", to |-> <<"1", "5">>, message |-> "hi"]}

\* the domain a bare recipient is suffixed with
DefaultDomain == <<"@", "s.whatsapp.net">>

\* inbound messages: msg.key.fromMe, msg.key.remoteJid and the two places
\* the text may be in; a text is a sequence of characters, <<>> when absent
mCmd == [fromMe |-> FALSE, remoteJid |-> "a", conversation |-> <<"/", "S", " ", "x">>,
         extendedText |-> <<>>]

mExt == [fromMe |-> FALSE, remoteJid |-> "b", conversation |-> <<>>,
         extendedText |-> <<"/", "q">>]

mPlain == [fromMe |-> FALSE, remoteJid |-> "c", conversation |-> <<"h", "i">>,
           extendedText |-> <<>>]

mEmpty == [fromMe |-> FALSE, remoteJid |-> "d", conversation |-> <<>>,
           extendedText |-> <<>>]

mMine == [fromMe |-> TRUE, remoteJid |-> "e", conversation |-> <<"/", "S", " ", "x">>,
          extendedText |-> <<>>]

\* the batches of the messages.upsert events: { messages, type }
Batches ==
    {[messages |-> <<mCmd, mExt, mPlain>>, type |-> "notify"],
     [messages |-> <<mMine, mEmpty, mPlain>>, type |-> "notify"],
     [messages |-> <<mCmd, mExt, mPlain>>, type |-> "append"]}

\* DisconnectReason of the transport library; 0 stands for an absent
\* lastDisconnect?.error?.output?.statusCode (undefined)
DisconnectReason == [loggedOut |-> 401, connectionClosed |-> 428]

StatusCodes == {0, DisconnectReason.loggedOut, DisconnectReason.connectionClosed}

\* the connection.update events a handle emits
Updates ==
    {[connection |-> "", statusCode |-> 0, qr |-> "qr"],
     [connection |-> "open", statusCode |-> 0, qr |-> ""]}
    \cup {[connection |-> "close", statusCode |-> c, qr |-> ""] : c \in StatusCodes}

\* ------------------------------------------------------------------------
\* State
\* ------------------------------------------------------------------------

VARIABLES
    sessions,     \* Map sessionId -> {sock, phoneNumber, status}
    wsClients,    \* Map sessionId -> array of channels
    socks,        \* the handles made so far; a handle is its index
    ws,           \* the channels accepted so far; a channel is its index
    timers,       \* pending setTimeout(() => createSession(...), 5000)
    pairs,        \* /api/pair requests in their settle wait
    disconnects,  \* /api/disconnect requests suspended at await logout()
    upserts,      \* messages.upsert handlers suspended at await sendMessage()
    process,      \* "running" | "exited"
    ev,           \* the step just taken
    bcast,        \* the broadcast(sessionId, data) calls of the step just taken
    sent,         \* the ws.send calls of the step just taken, in order
    calls,        \* the transport calls of the step just taken, in order
    res           \* the HTTP response written by the step just taken, if any

vars == <<sessions, wsClients, socks, ws, timers, pairs, disconnects, upserts,
          process, ev, bcast, sent, calls, res>>

\* ------------------------------------------------------------------------
\* Map helpers (JavaScript Map: has / get / set / delete)
\* ------------------------------------------------------------------------

MapSet(m, k, v) == [x \in DOMAIN m \cup {k} |-> IF x = k THEN v ELSE m[x]]

MapDelete(m, k) == [x \in DOMAIN m \ {k} |-> m[x]]

EmptyMap == [x \in {} |-> x]

\* mutant of SpreadStatus: the spread comes last and an existing entry
\* keeps its old status ({ status: value, ...obj })
SpreadStatus_ObjLast(m, k, value) ==
    IF k \in DOMAIN m /\ "status" \in DOMAIN m[k] THEN m[k] ELSE [status |-> value]

\* { ...obj, status: value } where obj may be undefined
SpreadStatus(m, k, value) ==
    IF k \in DOMAIN m
    THEN [f \in DOMAIN m[k] \cup {"status"} |-> IF f = "status" THEN value ELSE m[k][f]]
    ELSE [status |-> value]

\* ------------------------------------------------------------------------
\* Pure helpers
\* ------------------------------------------------------------------------

\* phoneNumber.replace(/[^0-9]/g, '')
CleanPhone(phoneNumber) == SelectSeq(phoneNumber, LAMBDA ch : ch \in Digits)

\* to.includes('@') ? to : `${to}@s.whatsapp.net`
Jid(to) == IF \E i \in DOMAIN to : to[i] = "@" THEN to ELSE to \o DefaultDomain

\* msg.message?.conversation || msg.message?.extendedTextMessage?.text || ''
Text(msg) == IF msg.conversation # <<>> THEN msg.conversation ELSE msg.extendedText

\* text.startsWith('/')
StartsWithSlash(text) == text # <<>> /\ Head(text) = "/"

\* s.split(' ')[0]
RECURSIVE FirstToken(_)
FirstToken(str) ==
    IF str = <<>> \/ Head(str) = " " THEN <<>>
    ELSE <<Head(str)>> \o FirstToken(Tail(str))

\* s.toLowerCase(), over the letters the inputs use
ToLowerCase(str) == [i \in DOMAIN str |-> IF str[i] = "S" THEN "s" ELSE str[i]]

\* text.slice(1).split(' ')[0].toLowerCase()
Command(text) == ToLowerCase(FirstToken(Tail(text)))

\* `Command received: /${command}`
AckText(text) == <<"Command received: /">> \o Command(text)

\* mutant of ShouldReconnect: a close without a status code does not
\* reconnect (statusCode && statusCode !== DisconnectReason.loggedOut)
ShouldReconnect_NeedsCode(statusCode) ==
    statusCode # 0 /\ statusCode # DisconnectReason.loggedOut

\* lastDisconnect?.error?.output?.statusCode !== DisconnectReason.loggedOut
ShouldReconnect(statusCode) == statusCode # DisconnectReason.loggedOut

\* mutant of ForEachSend: no readyState test, every listed channel is sent to
RECURSIVE ForEachSend_NoReadyState(_, _)
ForEachSend_NoReadyState(clients, data) ==
    IF clients = <<>> THEN <<>>
    ELSE <<[ws |-> Head(clients), data |-> data]>>
         \o ForEachSend_NoReadyState(Tail(clients), data)

\* clients.forEach(ws => { if (ws.readyState === WebSocket.OPEN) ws.send(...) })
RECURSIVE ForEachSend(_, _)
ForEachSend(clients, data) ==
    IF clients = <<>> THEN <<>>
    ELSE (IF ws[Head(clients)].readyState = "OPEN"
          THEN <<[ws |-> Head(clients), data |-> data]>>
          ELSE <<>>) \o ForEachSend(Tail(clients), data)

\* broadcast(sessionId, data): the ws.send calls it makes
broadcast(sessionId, data) ==
    ForEachSend(IF sessionId \in DOMAIN wsClients THEN wsClients[sessionId] ELSE <<>>, data)

\* the ws.send calls of a sequence of broadcast calls
RECURSIVE SendAll(_)
SendAll(bs) ==
    IF bs = <<>> THEN <<>>
    ELSE broadcast(Head(bs).sessionId, Head(bs).data) \o SendAll(Tail(bs))

\* GET /api/status/:sessionId
GetStatus(sessionId) ==
    IF sessionId \in DOMAIN sessions THEN sessions[sessionId].status ELSE "not_found"

\* mutant of Filter: the test is inverted (clients.filter(c => c === ws))
Filter_Inverted(clients, c) == SelectSeq(clients, LAMBDA x : x = c)

\* clients.filter(c => c !== ws)
Filter(clients, c) == SelectSeq(clients, LAMBDA x : x # c)

\* ------------------------------------------------------------------------
\* History helpers
\* ------------------------------------------------------------------------

\* history: a timer or a suspended createSession call is marked with the way
\* its sessionId was removed from the registry while it was pending
\* ("disconnect" or "logged_out"; "" when no removal happened since)
MarkStale(bag, sessionId, how) ==
    BagOfAll(LAMBDA t : IF t.sessionId = sessionId /\ t.stale # "logged_out"
                        THEN [t EXCEPT !.stale = how] ELSE t, bag)

NoUpdate == [connection |-> "", statusCode |-> 0, qr |-> ""]

\* the step just taken: the operation, the sessionId and the handle it acted
\* for, who called createSession ("pair" or "timer") with the stale mark of
\* the timer, and the connection.update event handled
Ev(op, sessionId, sock, by, stale, update) ==
    [op |-> op, sessionId |-> sessionId, sock |-> sock, by |-> by, stale |-> stale,
     update |-> update]

NoEv == Ev("", "", 0, "", "", NoUpdate)

Running == process = "running"

\* an unhandled promise rejection ends the Node 20 process: the Maps, the
\* handles, the channels, the timers and the suspended requests are lost
Exit ==
    /\ process' = "exited"
    /\ sessions' = EmptyMap
    /\ wsClients' = EmptyMap
    /\ socks' = <<>>
    /\ ws' = <<>>
    /\ timers' = EmptyBag
    /\ pairs' = EmptyBag
    /\ disconnects' = EmptyBag
    /\ upserts' = EmptyBag

\* handles made, channels accepted, and requests and handlers suspended; a
\* step that makes one of them is taken only while fewer than MaxObjects
\* exist
Objects ==
    Len(socks) + Len(ws) + BagCardinality(pairs) + BagCardinality(disconnects)
    + BagCardinality(upserts)

\* ------------------------------------------------------------------------
\* Initial state
\* ------------------------------------------------------------------------

Init ==
    /\ sessions = EmptyMap
    /\ wsClients = EmptyMap
    /\ socks = <<>>
    /\ ws = <<>>
    /\ timers = EmptyBag
    /\ pairs = EmptyBag
    /\ disconnects = EmptyBag
    /\ upserts = EmptyBag
    /\ process = "running"
    /\ ev = NoEv
    /\ bcast = <<>>
    /\ sent = <<>>
    /\ calls = <<>>
    /\ res = <<>>

\* ------------------------------------------------------------------------
\* createSession
\* ------------------------------------------------------------------------

\* makeWASocket(...) : the new handle, remembered with the sessionId and
\* phoneNumber its handlers close over
NewSock(sessionId, phoneNumber) ==
    [sessionId |-> sessionId, phoneNumber |-> phoneNumber,
     connection |-> "connecting"]

\* sessions.set(sessionId, { sock, phoneNumber, status: 'connecting' })
Register(sessionId, phoneNumber) ==
    MapSet(sessions, sessionId,
           [sock |-> Len(socks) + 1, phoneNumber |-> phoneNumber, status |-> "connecting"])

\* createSession past its awaits: make the handle, register it, attach the
\* handlers, return the handle
createSession(sessionId, phoneNumber) ==
    /\ Objects < MaxObjects
    /\ socks' = Append(socks, NewSock(sessionId, phoneNumber))
    /\ sessions' = Register(sessionId, phoneNumber)

\* sock.ev.on('connection.update', ...) of handle h
ConnectionUpdate(h, update) ==
    LET sessionId == socks[h].sessionId
        phoneNumber == socks[h].phoneNumber
        isOpen == update.connection = "open"
        isClose == update.connection = "close"
        shouldReconnect == ShouldReconnect(update.statusCode)
        afterOpen == IF isOpen
                     THEN MapSet(sessions, sessionId, SpreadStatus(sessions, sessionId, "connected"))
                     ELSE sessions
        loggedOut == isClose /\ ~shouldReconnect
    IN  /\ Running
        /\ socks[h].connection # "close"
        /\ update.connection = "open" => socks[h].connection = "connecting"
        /\ update.qr # "" => socks[h].connection = "connecting"
        /\ socks' = IF update.connection = ""
                    THEN socks
                    ELSE [socks EXCEPT ![h].connection = update.connection]
        /\ sessions' = IF loggedOut THEN MapDelete(afterOpen, sessionId) ELSE afterOpen
        /\ timers' = IF isClose /\ shouldReconnect
                     THEN timers (+) SetToBag({[sessionId |-> sessionId,
                                                phoneNumber |-> phoneNumber,
                                                stale |-> ""]})
                     ELSE IF loggedOut THEN MarkStale(timers, sessionId, "logged_out") ELSE timers
        /\ bcast' = (IF update.qr # ""
                     THEN <<[sessionId |-> sessionId,
                             data |-> [type |-> "qr", data |-> update.qr]]>>
                     ELSE <<>>)
                    \o (IF isOpen
                        THEN <<[sessionId |-> sessionId,
                                data |-> [type |-> "connection", status |-> "connected"]]>>
                        ELSE <<>>)
                    \o (IF loggedOut
                        THEN <<[sessionId |-> sessionId,
                                data |-> [type |-> "connection", status |-> "logged_out"]]>>
                        ELSE <<>>)
        /\ sent' = SendAll(bcast')
        /\ ev' = Ev("connection.update", sessionId, h, "", "", update)
        /\ calls' = <<>>
        /\ res' = <<>>
        /\ UNCHANGED <<wsClients, ws, pairs, disconnects, upserts, process>>

\* the step log of a messages.upsert step: the batch, the index `from` the
\* loop went on from and the index `at` of the message whose sendMessage it
\* now awaits (0 when the loop ran to its end)
EvUpsert(op, sessionId, sock, batch, from, at) ==
    [op |-> op, sessionId |-> sessionId, sock |-> sock, by |-> "", stale |-> "",
     update |-> NoUpdate, batch |-> batch, from |-> from, at |-> at]

\* for (const msg of messages) { ... } of the messages.upsert handler of
\* handle h, from message i on, up to the first `await sock.sendMessage` or
\* the end of the batch: the broadcast calls made, the sendMessage call made
\* (`after` is the number of broadcast calls of this run made before it) and
\* the index of the message whose acknowledgement is awaited.  Date.now() of
\* the event is left out.
RECURSIVE ForLoop(_, _, _, _, _)
ForLoop(sessionId, h, messages, i, n) ==
    IF i > Len(messages) THEN [bcast |-> <<>>, calls |-> <<>>, at |-> 0]
    ELSE IF messages[i].fromMe \/ Text(messages[i]) = <<>>
    THEN ForLoop(sessionId, h, messages, i + 1, n)
    ELSE LET b == [sessionId |-> sessionId,
                   data |-> [type |-> "message",
                             data |-> [from |-> messages[i].remoteJid,
                                       text |-> Text(messages[i])]]]
         IN  IF StartsWithSlash(Text(messages[i]))
             THEN [bcast |-> <<b>>,
                   calls |-> <<[op |-> "sendMessage", sock |-> h, after |-> n + 1,
                                arg |-> [jid |-> messages[i].remoteJid,
                                         text |-> AckText(Text(messages[i]))]]>>,
                   at |-> i]
             ELSE LET r == ForLoop(sessionId, h, messages, i + 1, n + 1)
                  IN  [bcast |-> <<b>> \o r.bcast, calls |-> r.calls, at |-> r.at]

\* sock.ev.on('messages.upsert', ...) of handle h, from the event to the
\* first await or the end
MessagesUpsert(h, batch) ==
    LET sessionId == socks[h].sessionId
        r == IF batch.type # "notify"
             THEN [bcast |-> <<>>, calls |-> <<>>, at |-> 0]
             ELSE ForLoop(sessionId, h, batch.messages, 1, 0)
    IN  /\ Running
        /\ socks[h].connection = "open"
        /\ bcast' = r.bcast
        /\ sent' = SendAll(bcast')
        /\ calls' = r.calls
        /\ IF r.at = 0
           THEN UNCHANGED upserts
           ELSE /\ Objects < MaxObjects
                /\ upserts' = upserts (+) SetToBag({[sock |-> h, batch |-> batch, at |-> r.at]})
        /\ ev' = EvUpsert("messages.upsert", sessionId, h, batch, 1, r.at)
        /\ res' = <<>>
        /\ UNCHANGED <<sessions, wsClients, socks, ws, timers, pairs, disconnects, process>>

\* the awaited sendMessage resolved: the loop goes on with the next message
UpsertResume(u) ==
    LET sessionId == socks[u.sock].sessionId
        r == ForLoop(sessionId, u.sock, u.batch.messages, u.at + 1, 0)
    IN  /\ Running
        /\ BagIn(u, upserts)
        /\ bcast' = r.bcast
        /\ sent' = SendAll(bcast')
        /\ calls' = r.calls
        /\ upserts' = IF r.at = 0
                      THEN upserts (-) SetToBag({u})
                      ELSE (upserts (-) SetToBag({u}))
                           (+) SetToBag({[u EXCEPT !.at = r.at]})
        /\ ev' = EvUpsert("messages.upsert resumed", sessionId, u.sock, u.batch,
                          u.at + 1, r.at)
        /\ res' = <<>>
        /\ UNCHANGED <<sessions, wsClients, socks, ws, timers, pairs, disconnects, process>>

\* the awaited sendMessage rejected: the async handler throws at the await,
\* the rest of the batch is not looked at, and the promise the event emitter
\* dropped is rejected with no handler
UpsertResumeFail(u) ==
    /\ Running
    /\ BagIn(u, upserts)
    /\ Exit
    /\ ev' = EvUpsert("messages.upsert failed", socks[u.sock].sessionId, u.sock, u.batch,
                      u.at + 1, 0)
    /\ bcast' = <<>> /\ sent' = <<>> /\ calls' = <<>> /\ res' = <<>>

\* the 5000 ms timer of a close handler fires and calls createSession, which
\* runs to its end.  (createSession reads and writes nothing shared before
\* its awaits, so the call and its continuation are taken as one step.)
TimerFire(t) ==
    /\ Running
    /\ BagIn(t, timers)
    /\ timers' = timers (-) SetToBag({t})
    /\ createSession(t.sessionId, t.phoneNumber)
    /\ ev' = Ev("createSession", t.sessionId, Len(socks) + 1, "timer", t.stale, NoUpdate)
    /\ bcast' = <<>> /\ sent' = <<>> /\ calls' = <<>> /\ res' = <<>>
    /\ UNCHANGED <<wsClients, ws, pairs, disconnects, upserts, process>>

\* the timer fires and its createSession call rejects
\* (useMultiFileAuthState or makeWASocket throws): nothing awaits the
\* promise, the rejection is unhandled
TimerFireFail(t) ==
    /\ Running
    /\ BagIn(t, timers)
    /\ Exit
    /\ ev' = Ev("createSession failed", t.sessionId, 0, "timer", t.stale, NoUpdate)
    /\ bcast' = <<>> /\ sent' = <<>> /\ calls' = <<>> /\ res' = <<>>

\* ------------------------------------------------------------------------
\* POST /api/pair
\* ------------------------------------------------------------------------

\* the request arrives: validation and cleaning, then createSession.  When
\* createSession returns, the route reads the registry entry and starts the
\* 2000 ms settle wait (the continuation of `await createSession(...)` runs
\* in the same microtask drain as the return); when it rejects, the route's
\* catch answers 500
PairRequest(sessionId, phoneNumber, ok) ==
    /\ Running
    /\ ev' = Ev("pair", sessionId, IF sessionId # NoSessionId /\ phoneNumber # <<>> /\ ok
                                   THEN Len(socks) + 1 ELSE 0, "pair", "", NoUpdate)
    /\ bcast' = <<>> /\ sent' = <<>> /\ calls' = <<>>
    /\ IF sessionId = NoSessionId \/ phoneNumber = <<>>
       THEN /\ res' = <<[code |-> 400, body |-> "sessionId and phoneNumber required"]>>
            /\ UNCHANGED <<sessions, socks, pairs>>
       ELSE IF ~ok
       THEN /\ res' = <<[code |-> 500, body |-> "error"]>>
            /\ UNCHANGED <<sessions, socks, pairs>>
       ELSE /\ createSession(sessionId, CleanPhone(phoneNumber))
            /\ pairs' = pairs (+) SetToBag({[sessionId |-> sessionId,
                                             cleanPhone |-> CleanPhone(phoneNumber),
                                             session |-> sessions'[sessionId],
                                             own |-> Len(socks')]})
            /\ res' = <<>>
    /\ UNCHANGED <<wsClients, ws, timers, disconnects, upserts, process>>

\* mutant of PairRequestCode: a failed pairing-code request is tried again
\* (the request stays in its wait and nothing is answered)
PairRequestCode_Retry(p, ok) ==
    /\ Running
    /\ BagIn(p, pairs)
    /\ pairs' = IF ok THEN pairs (-) SetToBag({p}) ELSE pairs
    /\ calls' = <<[op |-> "requestPairingCode", sock |-> p.session.sock,
                   arg |-> p.cleanPhone]>>
    /\ res' = IF ok THEN <<[code |-> 200, body |-> "pairCode"]>> ELSE <<>>
    /\ ev' = Ev("requestPairingCode", p.sessionId, p.own, "pair", "", NoUpdate)
    /\ bcast' = <<>> /\ sent' = <<>>
    /\ UNCHANGED <<sessions, wsClients, socks, ws, timers, disconnects, upserts, process>>

\* mutant of PairRequestCode: the registry is read after the settle wait
\* (sessions.get(sessionId) moved below the setTimeout promise); a missing
\* entry or a missing sock throws and the catch answers 500
PairRequestCode_LateGet(p, ok) ==
    LET found == p.sessionId \in DOMAIN sessions /\ "sock" \in DOMAIN sessions[p.sessionId]
    IN  /\ Running
        /\ BagIn(p, pairs)
        /\ pairs' = pairs (-) SetToBag({p})
        /\ calls' = IF found
                    THEN <<[op |-> "requestPairingCode", sock |-> sessions[p.sessionId].sock,
                            arg |-> p.cleanPhone]>>
                    ELSE <<>>
        /\ res' = IF found /\ ok
                  THEN <<[code |-> 200, body |-> "pairCode"]>>
                  ELSE <<[code |-> 500, body |-> "error"]>>
        /\ ev' = Ev("requestPairingCode", p.sessionId, p.own, "pair", "", NoUpdate)
        /\ bcast' = <<>> /\ sent' = <<>>
        /\ UNCHANGED <<sessions, wsClients, socks, ws, timers, disconnects, upserts, process>>

\* the settle wait is over: session.sock.requestPairingCode(cleanPhone) is
\* called and the transport answers with a code or an error.  (`own` is
\* history: the handle made by this request's createSession call.)
PairRequestCode(p, ok) ==
    /\ Running
    /\ BagIn(p, pairs)
    /\ pairs' = pairs (-) SetToBag({p})
    /\ LET session == p.session
       IN  /\ calls' = <<[op |-> "requestPairingCode", sock |-> session.sock,
                          arg |-> p.cleanPhone]>>
           /\ res' = IF ok
                     THEN <<[code |-> 200, body |-> "pairCode"]>>
                     ELSE <<[code |-> 500, body |-> "error"]>>
    /\ ev' = Ev("requestPairingCode", p.sessionId, p.own, "pair", "", NoUpdate)
    /\ bcast' = <<>> /\ sent' = <<>>
    /\ UNCHANGED <<sessions, wsClients, socks, ws, timers, disconnects, upserts, process>>

\* ------------------------------------------------------------------------
\* POST /api/send
\* ------------------------------------------------------------------------

\* the request: 400 without a connected entry; otherwise the jid is formed
\* and session.sock.sendMessage(jid, { text: message }) is called.  A body
\* without `to`, or an entry without a sock, makes the try block throw
\* before any call and the catch answers 500, as it does when the transport
\* rejects the call.  Nothing shared is read or written after the await, so
\* the answer is taken in the same step as the call.
Send(body, ok) ==
    LET sessionId == body.sessionId
    IN  /\ Running
        /\ ev' = Ev("send", sessionId, 0, "", "", NoUpdate)
        /\ bcast' = <<>> /\ sent' = <<>>
        /\ IF sessionId \notin DOMAIN sessions \/ sessions[sessionId].status # "connected"
           THEN /\ calls' = <<>>
                /\ res' = <<[code |-> 400, body |-> "Session not connected"]>>
           ELSE IF "to" \notin DOMAIN body \/ "sock" \notin DOMAIN sessions[sessionId]
           THEN /\ calls' = <<>>
                /\ res' = <<[code |-> 500, body |-> "error"]>>
           ELSE /\ calls' = <<[op |-> "sendMessage", sock |-> sessions[sessionId].sock,
                               arg |-> [jid |-> Jid(body.to), text |-> body.message]]>>
                /\ res' = IF ok
                          THEN <<[code |-> 200, body |-> "success"]>>
                          ELSE <<[code |-> 500, body |-> "error"]>>
        /\ UNCHANGED <<sessions, wsClients, socks, ws, timers, pairs, disconnects, upserts,
                       process>>

\* ------------------------------------------------------------------------
\* POST /api/disconnect/:sessionId
\* ------------------------------------------------------------------------

\* the request arrives: with no entry it answers at once; with an entry it
\* calls session.sock.logout() and suspends.  An entry without a sock makes
\* the call throw; the async route has no catch, so the rejection is
\* unhandled: no answer, and Node 20 ends the process
Disconnect(sessionId) ==
    /\ Running
    /\ ev' = Ev("disconnect", sessionId, 0, "", "", NoUpdate)
    /\ bcast' = <<>> /\ sent' = <<>>
    /\ IF sessionId \notin DOMAIN sessions
       THEN /\ res' = <<[code |-> 200, body |-> "success"]>>
            /\ calls' = <<>>
            /\ UNCHANGED <<sessions, wsClients, socks, ws, timers, pairs,
                           disconnects, upserts, process>>
       ELSE IF "sock" \notin DOMAIN sessions[sessionId]
       THEN /\ Exit
            /\ res' = <<>>
            /\ calls' = <<>>
       ELSE /\ Objects < MaxObjects
            /\ disconnects' = disconnects (+) SetToBag({[sessionId |-> sessionId,
                                                         sock |-> sessions[sessionId].sock]})
            /\ calls' = <<[op |-> "logout", sock |-> sessions[sessionId].sock, arg |-> <<>>]>>
            /\ res' = <<>>
            /\ UNCHANGED <<sessions, wsClients, socks, ws, timers, pairs,
                           upserts, process>>

\* mutant of DisconnectLogout: the removal also drops the subscriber list of
\* the sessionId (wsClients.delete(sessionId))
DisconnectLogout_DropsSubscribers(d) ==
    /\ Running
    /\ BagIn(d, disconnects)
    /\ disconnects' = disconnects (-) SetToBag({d})
    /\ sessions' = MapDelete(sessions, d.sessionId)
    /\ wsClients' = MapDelete(wsClients, d.sessionId)
    /\ timers' = MarkStale(timers, d.sessionId, "disconnect")
    /\ res' = <<[code |-> 200, body |-> "success"]>>
    /\ ev' = Ev("disconnected", d.sessionId, d.sock, "", "", NoUpdate)
    /\ bcast' = <<>> /\ sent' = <<>> /\ calls' = <<>>
    /\ UNCHANGED <<socks, ws, pairs, upserts, process>>

\* logout() resolved: sessions.delete(sessionId), then the answer
DisconnectLogout(d) ==
    /\ Running
    /\ BagIn(d, disconnects)
    /\ disconnects' = disconnects (-) SetToBag({d})
    /\ sessions' = MapDelete(sessions, d.sessionId)
    /\ timers' = MarkStale(timers, d.sessionId, "disconnect")
    /\ res' = <<[code |-> 200, body |-> "success"]>>
    /\ ev' = Ev("disconnected", d.sessionId, d.sock, "", "", NoUpdate)
    /\ bcast' = <<>> /\ sent' = <<>> /\ calls' = <<>>
    /\ UNCHANGED <<wsClients, socks, ws, pairs, upserts, process>>

\* logout() rejected: the route has no catch, the rejection is unhandled
DisconnectLogoutFail(d) ==
    /\ Running
    /\ BagIn(d, disconnects)
    /\ Exit
    /\ ev' = Ev("logout failed", d.sessionId, d.sock, "", "", NoUpdate)
    /\ bcast' = <<>> /\ sent' = <<>> /\ calls' = <<>> /\ res' = <<>>

\* ------------------------------------------------------------------------
\* WebSocket channels
\* ------------------------------------------------------------------------

\* mutant of Snapshot: the snapshot is sent whether or not the session
\* exists, with the status GET /api/status would answer
Snapshot_Always(sessionId, c) ==
    <<[ws |-> c, data |-> [type |-> "connection", status |-> GetStatus(sessionId)]]>>

\* the status snapshot sent to a new channel c when the session exists
Snapshot(sessionId, c) ==
    IF sessionId \in DOMAIN sessions
    THEN <<[ws |-> c, data |-> [type |-> "connection", status |-> sessions[sessionId].status]]>>
    ELSE <<>>

\* wss.on('connection'): without a sessionId the channel is closed at once,
\* no close handler is attached and the server keeps no reference to it;
\* otherwise it is pushed on the list of its sessionId and sent the snapshot
\* of an existing session
WsConnection(sessionId) ==
    LET c == Len(ws) + 1
    IN  /\ Running
        /\ IF sessionId = NoSessionId
           THEN /\ sent' = <<>>
                /\ UNCHANGED <<ws, wsClients>>
           ELSE /\ Objects < MaxObjects
                /\ ws' = Append(ws, [sessionId |-> sessionId, readyState |-> "OPEN"])
                /\ wsClients' = MapSet(wsClients, sessionId,
                                       Append(IF sessionId \in DOMAIN wsClients
                                              THEN wsClients[sessionId] ELSE <<>>, c))
                /\ sent' = Snapshot(sessionId, c)
        /\ ev' = Ev("ws.connection", sessionId, 0, "", "", NoUpdate)
        /\ bcast' = <<>> /\ calls' = <<>> /\ res' = <<>>
        /\ UNCHANGED <<sessions, socks, timers, pairs, disconnects, upserts, process>>

\* the closing handshake of an open channel starts: readyState leaves OPEN
\* before the 'close' event is emitted
WsClosing(c) ==
    /\ Running
    /\ c \in DOMAIN ws
    /\ ws[c].readyState = "OPEN"
    /\ ws' = [ws EXCEPT ![c].readyState = "CLOSING"]
    /\ ev' = Ev("ws.closing", ws[c].sessionId, 0, "", "", NoUpdate)
    /\ bcast' = <<>> /\ sent' = <<>> /\ calls' = <<>> /\ res' = <<>>
    /\ UNCHANGED <<sessions, wsClients, socks, timers, pairs, disconnects, upserts,
                   process>>

\* the channel is closed and its 'close' event runs ws.on('close', ...)
WsClose(c) ==
    /\ Running
    /\ c \in DOMAIN ws
    /\ ws[c].readyState # "CLOSED"
    /\ ws' = [ws EXCEPT ![c].readyState = "CLOSED"]
    /\ wsClients' = MapSet(wsClients, ws[c].sessionId,
                           Filter(IF ws[c].sessionId \in DOMAIN wsClients
                                  THEN wsClients[ws[c].sessionId] ELSE <<>>, c))
    /\ ev' = Ev("ws.close", ws[c].sessionId, 0, "", "", NoUpdate)
    /\ bcast' = <<>> /\ sent' = <<>> /\ calls' = <<>> /\ res' = <<>>
    /\ UNCHANGED <<sessions, socks, timers, pairs, disconnects, upserts, process>>

\* ------------------------------------------------------------------------
\* Specification
\* ------------------------------------------------------------------------

Next ==
    \/ \E b \in PairBodies, ok \in BOOLEAN :
          /\ (b.sessionId = NoSessionId \/ b.phoneNumber = <<>>) => ok
          /\ PairRequest(b.sessionId, b.phoneNumber, ok)
    \/ \E p \in BagToSet(pairs), ok \in BOOLEAN : PairRequestCode(p, ok)
    \/ \E h \in DOMAIN socks, u \in Updates : ConnectionUpdate(h, u)
    \/ \E h \in DOMAIN socks, b \in Batches : MessagesUpsert(h, b)
    \/ \E u \in BagToSet(upserts) : UpsertResume(u)
    \/ \E u \in BagToSet(upserts) : UpsertResumeFail(u)
    \/ \E t \in BagToSet(timers) : TimerFire(t)
    \/ \E t \in BagToSet(timers) : TimerFireFail(t)
    \/ \E b \in SendBodies, ok \in BOOLEAN :
          /\ GetStatus(b.sessionId) # "connected" => ok
          /\ Send(b, ok)
    \/ \E s \in SessionIds : Disconnect(s)
    \/ \E d \in BagToSet(disconnects) : DisconnectLogout(d)
    \/ \E d \in BagToSet(disconnects) : DisconnectLogoutFail(d)
    \/ \E s \in SessionIds \cup {NoSessionId} : WsConnection(s)
    \/ \E c \in DOMAIN ws : WsClosing(c)
    \/ \E c \in DOMAIN ws : WsClose(c)

Spec == Init /\ [][Next]_vars

\* the event loop runs what is due: a pending timer fires (its createSession
\* call then succeeds or fails), and a settle wait ends.  What the transport
\* does (events, answers to calls) and what clients ask is not forced.
Fairness ==
    /\ WF_vars(\E t \in BagToSet(timers) : TimerFire(t) \/ TimerFireFail(t))
    /\ WF_vars(\E p \in BagToSet(pairs), ok \in BOOLEAN : PairRequestCode(p, ok))

SpecLive == Spec /\ Fairness

\* the server with pairing requests for both sessionIds: the routes
\* /api/pair and /api/disconnect, the connection.update handlers, the timers
\* and the subscriptions
NextTwoSessions ==
    \/ \E s \in SessionIds, ok \in BOOLEAN : PairRequest(s, <<"+", "1", " ", "2">>, ok)
    \/ \E p \in BagToSet(pairs), ok \in BOOLEAN : PairRequestCode(p, ok)
    \/ \E h \in DOMAIN socks, u \in Updates : ConnectionUpdate(h, u)
    \/ \E t \in BagToSet(timers) : TimerFire(t)
    \/ \E t \in BagToSet(timers) : TimerFireFail(t)
    \/ \E s \in SessionIds : Disconnect(s)
    \/ \E d \in BagToSet(disconnects) : DisconnectLogout(d)
    \/ \E d \in BagToSet(disconnects) : DisconnectLogoutFail(d)
    \/ \E s \in SessionIds : WsConnection(s)

SpecTwoSessions == Init /\ [][NextTwoSessions]_vars

\* ------------------------------------------------------------------------
\* Vocabulary of the properties
\* ------------------------------------------------------------------------

Range(f) == {f[i] : i \in DOMAIN f}

\* the status GET /api/status answers for sessionId when the registry is m
StatusIn(m, sessionId) ==
    IF sessionId \in DOMAIN m THEN m[sessionId].status ELSE "not_found"

\* how many times x occurs in the sequence q
Count(q, x) == Cardinality({i \in DOMAIN q : q[i] = x})

\* the subscriber list of a sessionId, empty when it has none
Clients(sessionId) ==
    IF sessionId \in DOMAIN wsClients THEN wsClients[sessionId] ELSE <<>>

\* a handle whose handlers can still run
Live(h) == socks[h].connection # "close"

LiveSocks(sessionId) == {h \in DOMAIN socks : socks[h].sessionId = sessionId /\ Live(h)}

\* a handle after which createSession registered another handle for the
\* same sessionId
Replaced(h) ==
    \E h2 \in DOMAIN socks : h2 > h /\ socks[h2].sessionId = socks[h].sessionId

\* the sequence q without the element c, order kept
RECURSIVE Without(_, _)
Without(q, c) ==
    IF q = <<>> THEN <<>>
    ELSE IF Head(q) = c THEN Without(Tail(q), c)
    ELSE <<Head(q)>> \o Without(Tail(q), c)

ConnectedEvent == [type |-> "connection", status |-> "connected"]

LoggedOutEvent == [type |-> "connection", status |-> "logged_out"]

\* the step just taken handled a close event / an open event
IsClose(e) == e.op = "connection.update" /\ e.update.connection = "close"

IsLoggedOutClose(e) == IsClose(e) /\ e.update.statusCode = DisconnectReason.loggedOut

IsOpen(e) == e.op = "connection.update" /\ e.update.connection = "open"

\* the step just taken completed a createSession call
IsCreate(e) == e.op \in {"pair", "createSession"} /\ e.sock # 0

IsTimerCreate(e) == e.op = "createSession" /\ e.by = "timer"

\* ------------------------------------------------------------------------
\* Properties
\* ------------------------------------------------------------------------

\* C1: in every reachable state every sessionId has at most one live
\* transport handle (a handle made by createSession whose handlers can still
\* run): createSession retires the prior handle of a sessionId before it
\* registers the new one.
C1_AtMostOneLiveHandle ==
    \A s \in SessionIds : Cardinality(LiveSocks(s)) <= 1

\* C2: a reconnection timer that was pending when its sessionId was removed
\* from the registry (by /api/disconnect or by a logged-out close) never
\* re-creates the registry entry of that sessionId.
C2_NoStaleTimerResurrection ==
    [][~(/\ IsTimerCreate(ev')
         /\ ev'.stale # ""
         /\ ev'.sessionId \notin DOMAIN sessions
         /\ ev'.sessionId \in DOMAIN sessions')]_vars

\* C3: a logged-out close of a handle of session S removes S from the
\* registry, broadcasts the logged_out connection event for S and schedules
\* no timer; and no timer ever calls createSession for S after that event.
C3_LoggedOutIsTerminal ==
    [][/\ IsLoggedOutClose(ev') =>
            /\ ev'.sessionId \notin DOMAIN sessions'
            /\ [sessionId |-> ev'.sessionId, data |-> LoggedOutEvent] \in Range(bcast')
            /\ BagCardinality(timers') = BagCardinality(timers)
       /\ ~(ev'.by = "timer" /\ ev'.stale = "logged_out")]_vars

\* C4: every close event whose reason is not logged-out (a close without a
\* reason included) schedules exactly one reconnection timer, carrying the
\* sessionId and the phoneNumber of the closed handle, and leaves the
\* registry as it is; a timer that fires is consumed and calls createSession
\* once, which makes one handle and registers it with the timer's sessionId
\* and phoneNumber.
C4_CloseSchedulesOneReconnect ==
    [][/\ (IsClose(ev') /\ ~IsLoggedOutClose(ev')) =>
            /\ timers' = timers (+) SetToBag({[sessionId |-> socks[ev'.sock].sessionId,
                                               phoneNumber |-> socks[ev'.sock].phoneNumber,
                                               stale |-> ""]})
            /\ sessions' = sessions
       /\ IsTimerCreate(ev') =>
            \E t \in BagToSet(timers) :
                /\ timers' = timers (-) SetToBag({t})
                /\ Len(socks') = Len(socks) + 1
                /\ socks'[Len(socks')].sessionId = t.sessionId
                /\ socks'[Len(socks')].phoneNumber = t.phoneNumber
                /\ sessions'[t.sessionId].sock = Len(socks')
                /\ sessions'[t.sessionId].phoneNumber = t.phoneNumber]_vars

\* a closed handle's timer has fired and re-created the session with the
\* phone number of the pairing request
C4_Witness ==
    /\ IsTimerCreate(ev)
    /\ socks[ev.sock].connection = "connecting"
    /\ \E h \in DOMAIN socks : h < ev.sock /\ socks[h].connection = "close"
    /\ sessions[ev.sessionId].phoneNumber = <<"1", "2">>

\* C5: once createSession has registered a new handle for a sessionId, no
\* event emitted by a replaced handle of that sessionId changes the registry,
\* schedules a reconnection or is sent to a subscriber.
C5_ReplacedHandleIsSilent ==
    [][(ev'.op = "connection.update" /\ Replaced(ev'.sock)) =>
            /\ sessions' = sessions
            /\ timers' = timers
            /\ sent' = <<>>]_vars

\* C6: an open event handled while its sessionId is not in the registry
\* leaves it out of the registry, and every registry entry carries a
\* transport handle and a phone number.
C6_StatusUpdateNeverResurrects ==
    [][/\ (IsOpen(ev') /\ ev'.sessionId \notin DOMAIN sessions) =>
            ev'.sessionId \notin DOMAIN sessions'
       /\ \A s \in DOMAIN sessions' : {"sock", "phoneNumber"} \subseteq DOMAIN sessions'[s]]_vars

\* C7: a step that calls broadcast(sessionId, event) sends the event exactly
\* once to every channel that is in the subscriber list of sessionId and
\* OPEN, and to no other channel (none that is not OPEN, none subscribed to
\* another sessionId); with no subscriber, or no list, it sends nothing and
\* the process keeps running.
C7_BroadcastDelivery ==
    bcast # <<>> =>
        /\ Running
        /\ \A i \in DOMAIN sent :
              /\ sent[i].ws \in DOMAIN ws
              /\ \E j \in DOMAIN bcast :
                    /\ bcast[j].data = sent[i].data
                    /\ ws[sent[i].ws].sessionId = bcast[j].sessionId
        /\ \A c \in DOMAIN ws : \A j \in DOMAIN bcast :
              Count(sent, [ws |-> c, data |-> bcast[j].data]) =
                  Cardinality({k \in DOMAIN bcast :
                                  /\ bcast[k].data = bcast[j].data
                                  /\ ws[c].readyState = "OPEN"
                                  /\ c \in Range(Clients(bcast[k].sessionId))})

\* one event was broadcast to a list holding an OPEN and a CLOSING channel:
\* the OPEN one got it once, the CLOSING one did not
C7_Witness ==
    /\ Len(bcast) = 1
    /\ \E c1, c2 \in DOMAIN ws :
          /\ {c1, c2} \subseteq Range(Clients(bcast[1].sessionId))
          /\ ws[c1].readyState = "OPEN"
          /\ ws[c2].readyState = "CLOSING"
          /\ sent = <<[ws |-> c1, data |-> bcast[1].data]>>

\* C8: a channel whose close handler has run is in no subscriber list and is
\* sent nothing by any later step; the close handler removes that channel
\* only, keeping the other channels of the list in order; a channel that is
\* still OPEN stays in the list of its sessionId and is sent every event
\* broadcast for it; filtering a list for a channel it does not hold gives
\* the same list.
C8_ClosedChannelUnsubscribed ==
    [][/\ \A c \in DOMAIN ws' :
            /\ ws'[c].readyState = "CLOSED" =>
                  /\ \A i \in DOMAIN sent' : sent'[i].ws # c
                  /\ \A s \in DOMAIN wsClients' : c \notin Range(wsClients'[s])
            /\ (c \in DOMAIN ws /\ ws[c].readyState # "CLOSED"
                                /\ ws'[c].readyState = "CLOSED") =>
                  \A s \in DOMAIN wsClients : wsClients'[s] = Without(wsClients[s], c)
            /\ ws'[c].readyState = "OPEN" =>
                  /\ ws'[c].sessionId \in DOMAIN wsClients'
                  /\ Count(wsClients'[ws'[c].sessionId], c) = 1
                  /\ \A j \in DOMAIN bcast' :
                        bcast'[j].sessionId = ws'[c].sessionId =>
                            [ws |-> c, data |-> bcast'[j].data] \in Range(sent')
       /\ \A s \in DOMAIN wsClients' : \A c \in DOMAIN ws' :
            c \notin Range(wsClients'[s]) => Filter(wsClients'[s], c) = wsClients'[s]]_vars

\* one channel of a sessionId is closed and unsubscribed, another channel of
\* the same sessionId is still subscribed and has just been sent a broadcast
C8_Witness ==
    \E c, c2 \in DOMAIN ws :
        /\ ws[c].readyState = "CLOSED"
        /\ ws[c2].readyState = "OPEN"
        /\ ws[c].sessionId = ws[c2].sessionId
        /\ Len(bcast) = 1
        /\ bcast[1].sessionId = ws[c2].sessionId
        /\ sent = <<[ws |-> c2, data |-> bcast[1].data]>>

\* C9: a channel that subscribes to sessionId is appended to the subscriber
\* list of sessionId; it is sent exactly one connection snapshot with the
\* registry's status when sessionId has a registry entry, and nothing when
\* it has none; subscribing changes no registry entry.
C9_SubscribeSnapshot ==
    [][(ev'.op = "ws.connection" /\ ev'.sessionId # NoSessionId) =>
            /\ Len(ws') = Len(ws) + 1
            /\ wsClients'[ev'.sessionId] = Append(Clients(ev'.sessionId), Len(ws'))
            /\ sessions' = sessions
            /\ sent' = IF ev'.sessionId \in DOMAIN sessions
                       THEN <<[ws |-> Len(ws'),
                               data |-> [type |-> "connection",
                                         status |-> GetStatus(ev'.sessionId)]]>>
                       ELSE <<>>]_vars

\* a channel has just subscribed to a connected session, after another
\* channel, and was sent the snapshot "connected"
C9_Witness ==
    /\ ev.op = "ws.connection"
    /\ ev.sessionId \in DOMAIN sessions
    /\ Len(Clients(ev.sessionId)) = 2
    /\ sent = <<[ws |-> Len(ws), data |-> ConnectedEvent]>>

C11_SendIffConnected ==
    [][ev'.op = "send" =>
          /\ sessions' = sessions /\ wsClients' = wsClients
          /\ IF GetStatus(ev'.sessionId) = "connected"
             THEN /\ Len(calls') = 1
                  /\ calls'[1].op = "sendMessage"
                  /\ calls'[1].sock = sessions[ev'.sessionId].sock
                  /\ \E b \in SendBodies :
                        /\ b.sessionId = ev'.sessionId
                        /\ "to" \in DOMAIN b
                        /\ calls'[1].arg.text = b.message
                        /\ calls'[1].arg.jid =
                              (IF "@" \in Range(b.to) THEN b.to ELSE b.to \o DefaultDomain)
             ELSE /\ calls' = <<>>
                  /\ res' = <<[code |-> 400, body |-> "Session not connected"]>>]_vars

\* C12: every /api/disconnect request completes with the success response,
\* whether or not the session exists and whether or not logout succeeds;
\* when the session exists logout is called on its handle and the sessionId
\* has no registry entry once the request completes; when it does not exist
\* nothing changes.
C12_DisconnectAlwaysSucceeds ==
    [][/\ ev'.op = "disconnect" =>
            IF ev'.sessionId \in DOMAIN sessions
            THEN /\ process' = "running"
                 /\ "sock" \in DOMAIN sessions[ev'.sessionId]
                 /\ calls' = <<[op |-> "logout", sock |-> sessions[ev'.sessionId].sock,
                                arg |-> <<>>]>>
            ELSE /\ res' = <<[code |-> 200, body |-> "success"]>>
                 /\ calls' = <<>>
                 /\ sessions' = sessions /\ wsClients' = wsClients /\ timers' = timers
       /\ ev'.op \in {"disconnected", "logout failed"} =>
            /\ process' = "running"
            /\ res' = <<[code |-> 200, body |-> "success"]>>
            /\ ev'.sessionId \notin DOMAIN sessions']_vars

\* C13: a pairing request creates the session, waits, then makes one
\* pairing-code request: when createSession fails it answers 500 and never
\* reaches the pairing-code request; the pairing-code step makes exactly one
\* requestPairingCode call, for the cleaned phone number, and ends the
\* request with 200 and the code or with 500 (no retry); neither step
\* broadcasts or sends anything to a channel, and no registry entry holds
\* anything but sock, phoneNumber and status.
C13_PairingOnceNoLeak ==
    [][/\ ev'.op = "pair" =>
            /\ calls' = <<>> /\ bcast' = <<>> /\ sent' = <<>>
            /\ IF res' # <<>>
               THEN /\ res'[1].code \in {400, 500}
                    /\ pairs' = pairs /\ sessions' = sessions /\ socks' = socks
               ELSE /\ IsCreate(ev')
                    /\ BagCardinality(pairs') = BagCardinality(pairs) + 1
       /\ ev'.op = "requestPairingCode" =>
            /\ \E q \in BagToSet(pairs) :
                  /\ pairs' = pairs (-) SetToBag({q})
                  /\ q.cleanPhone \in {CleanPhone(b.phoneNumber) : b \in PairBodies}
                  /\ Len(calls') = 1
                  /\ calls'[1].op = "requestPairingCode"
                  /\ calls'[1].arg = q.cleanPhone
            /\ res' \in {<<[code |-> 200, body |-> "pairCode"]>>,
                          <<[code |-> 500, body |-> "error"]>>}
            /\ bcast' = <<>> /\ sent' = <<>>
            /\ sessions' = sessions
       /\ \A s \in DOMAIN sessions' :
            DOMAIN sessions'[s] \subseteq {"sock", "phoneNumber", "status"}]_vars

\* a pairing request has just been answered with the code while an OPEN
\* channel subscribes to its sessionId, and the channel was sent nothing
C13_Witness ==
    /\ ev.op = "requestPairingCode"
    /\ res = <<[code |-> 200, body |-> "pairCode"]>>
    /\ \E c \in DOMAIN ws : ws[c].sessionId = ev.sessionId /\ ws[c].readyState = "OPEN"
    /\ sent = <<>>

\* a message the handler must report: not the account's own, with a text
Eligible(msg) == ~msg.fromMe /\ (msg.conversation # <<>> \/ msg.extendedText # <<>>)

\* an eligible message whose text begins with '/'
IsCommand(msg) ==
    /\ Eligible(msg)
    /\ IF msg.conversation # <<>> THEN msg.conversation[1] = "/"
                                  ELSE msg.extendedText[1] = "/"

\* the message event of msg for the subscribers of sessionId
MessageEvent(sessionId, msg) ==
    [sessionId |-> sessionId,
     data |-> [type |-> "message",
               data |-> [from |-> msg.remoteJid,
                         text |-> IF msg.conversation # <<>> THEN msg.conversation
                                                             ELSE msg.extendedText]]]

\* the message events of the eligible messages i..j of a batch, in order
RECURSIVE MessageEvents(_, _, _, _)
MessageEvents(sessionId, messages, i, j) ==
    IF i > j THEN <<>>
    ELSE (IF Eligible(messages[i]) THEN <<MessageEvent(sessionId, messages[i])>> ELSE <<>>)
         \o MessageEvents(sessionId, messages, i + 1, j)

\* the step just taken ran the loop of a messages.upsert handler
IsUpsertRun(e) == e.op \in {"messages.upsert", "messages.upsert resumed"}

\* the last message the run of the loop looked at
LastSeen(e) == IF e.at = 0 THEN Len(e.batch.messages) ELSE e.at

\* C14: every live-mode message from a non-self sender whose text begins
\* with '/' causes one broadcast message event and then one acknowledgement
\* sendMessage call on the handle that received it, to its sender; a run of
\* the handler that meets no such message makes no sendMessage call; and no
\* such message of a batch is left without its broadcast and its
\* acknowledgement.
C14_CommandAcknowledged ==
    [][/\ (IsUpsertRun(ev') /\ ev'.batch.type = "notify") =>
            /\ \A i \in ev'.from .. (LastSeen(ev') - 1) : ~IsCommand(ev'.batch.messages[i])
            /\ IF ev'.at # 0
               THEN LET msg == ev'.batch.messages[ev'.at]
                    IN  /\ IsCommand(msg)
                        /\ Len(calls') = 1
                        /\ calls'[1].op = "sendMessage"
                        /\ calls'[1].sock = ev'.sock
                        /\ calls'[1].arg.jid = msg.remoteJid
                        /\ calls'[1].after = Len(bcast')
                        /\ bcast' # <<>>
                        /\ bcast'[Len(bcast')] = MessageEvent(ev'.sessionId, msg)
                        /\ Count(bcast', MessageEvent(ev'.sessionId, msg)) = 1
               ELSE /\ calls' = <<>>
                    /\ ~IsCommand(ev'.batch.messages[LastSeen(ev')])
       /\ ev'.op = "messages.upsert failed" =>
            \A i \in ev'.from .. Len(ev'.batch.messages) : ~IsCommand(ev'.batch.messages[i])]_vars

\* C15: a message of a batch is broadcast as a message event if and only if
\* the batch is in live mode (notify), the message is not the account's own
\* and its text is not empty; every run of the handler broadcasts exactly
\* those messages of the part of the batch it looks at, once each and in
\* batch order; a resumed run goes on right after the message it awaited;
\* and a failed acknowledgement leaves no such message of the batch without
\* its broadcast.
C15_BatchBroadcast ==
    [][/\ IsUpsertRun(ev') =>
            bcast' = IF ev'.batch.type = "notify"
                     THEN MessageEvents(ev'.sessionId, ev'.batch.messages,
                                        ev'.from, LastSeen(ev'))
                     ELSE <<>>
       /\ ev'.op = "messages.upsert" => ev'.from = 1
       /\ ev'.op \in {"messages.upsert resumed", "messages.upsert failed"} =>
            \E u \in BagToSet(upserts) :
                /\ u.batch = ev'.batch /\ u.sock = ev'.sock /\ ev'.from = u.at + 1
       /\ ev'.op = "messages.upsert failed" =>
            MessageEvents(ev'.sessionId, ev'.batch.messages,
                          ev'.from, Len(ev'.batch.messages)) = <<>>]_vars

\* a reconnection timer is pending for sessionId
Pending(sessionId) == \E t \in BagToSet(timers) : t.sessionId = sessionId

\* C16: when the createSession call of a reconnection timer fails, a
\* reconnection timer is eventually pending again for its sessionId, or a
\* handle of that sessionId is live.
C16_ReconnectNeverDiesSilently ==
    \A s \in SessionIds :
        (ev.op = "createSession failed" /\ ev.sessionId = s)
            ~> (Pending(s) \/ LiveSocks(s) # {})

\* the subscriber list of a sessionId when the lists are m
ClientsIn(m, sessionId) == IF sessionId \in DOMAIN m THEN m[sessionId] ELSE <<>>

\* the pending timers of a sessionId
TimersOf(bag, sessionId) == {t \in BagToSet(bag) : t.sessionId = sessionId}

\* C17: a step taken for session X (a transport event, a timer, a command,
\* failing or not) leaves every other session Y as it was: its registry
\* entry, its subscriber list and its pending timers are unchanged and no
\* channel of Y is sent anything.
C17_OtherSessionsUntouched ==
    [][\A y \in SessionIds :
          ev'.sessionId # y =>
              /\ (y \in DOMAIN sessions') = (y \in DOMAIN sessions)
              /\ y \in DOMAIN sessions => sessions'[y] = sessions[y]
              /\ ClientsIn(wsClients', y) = ClientsIn(wsClients, y)
              /\ TimersOf(timers', y) = TimersOf(timers, y)
              /\ \A t \in TimersOf(timers, y) : CopiesIn(t, timers') = CopiesIn(t, timers)
              /\ \A i \in DOMAIN sent' : ws'[sent'[i].ws].sessionId # y]_vars

\* C18: a step that removes a session from the registry (a logged-out close,
\* or /api/disconnect after logout) leaves every subscriber list as it was,
\* and the logged-out close tells the OPEN subscribers; creating a session
\* leaves the lists as they were; and every event broadcast for a sessionId
\* is sent to each OPEN channel of its list, whether or not the sessionId is
\* in the registry.
C18_RemovalKeepsSubscribers ==
    [][/\ (IsLoggedOutClose(ev') \/ ev'.op = "disconnected") =>
            /\ ev'.sessionId \notin DOMAIN sessions'
            /\ wsClients' = wsClients
       /\ IsLoggedOutClose(ev') =>
            \A c \in Range(Clients(ev'.sessionId)) :
                ws[c].readyState = "OPEN" =>
                    [ws |-> c, data |-> LoggedOutEvent] \in Range(sent')
       /\ IsCreate(ev') => wsClients' = wsClients
       /\ \A j \in DOMAIN bcast' : \A c \in Range(Clients(bcast'[j].sessionId)) :
            ws[c].readyState = "OPEN" =>
                [ws |-> c, data |-> bcast'[j].data] \in Range(sent')]_vars

\* handle 1 of a sessionId was closed as logged out (no timer is left) and
\* the session removed; channel 1, subscribed to the sessionId before the
\* new session existed, is sent the open of handle 2, made by a later
\* pairing request
C18_Witness ==
    /\ IsOpen(ev)
    /\ ev.sock = 2
    /\ socks[1].sessionId = ev.sessionId
    /\ socks[1].connection = "close"
    /\ timers = EmptyBag
    /\ \E q \in BagToSet(pairs) : q.own = 2
    /\ sent = <<[ws |-> 1, data |-> ConnectedEvent]>>

\* C19: whenever the registry reports the status connected for a sessionId,
\* the handle stored in its entry has emitted open and has not emitted close
\* since; and the sendMessage call of a /api/send step is made on a handle
\* that is open.
C19_ConnectedMeansOpen ==
    /\ \A s \in DOMAIN sessions :
          sessions[s].status = "connected" =>
              /\ "sock" \in DOMAIN sessions[s]
              /\ socks[sessions[s].sock].connection = "open"
    /\ (ev.op = "send" /\ calls # <<>>) => socks[calls[1].sock].connection = "open"

\* C20: every pairing request makes its requestPairingCode call on the
\* handle its own createSession call made, whatever other pairing requests,
\* timers and disconnect commands of the same sessionId ran during its
\* settle wait: the entry it reads when createSession returns holds that
\* handle, and the call is made on it even when the registry by then holds
\* another handle or no entry.
C20_PairingCodeOnOwnHandle ==
    [][/\ (ev'.op = "pair" /\ IsCreate(ev')) =>
            \E q \in BagToSet(pairs') :
                /\ pairs' = pairs (+) SetToBag({q})
                /\ q.own = Len(socks') /\ q.own = ev'.sock
                /\ q.session.sock = q.own
       /\ ev'.op = "requestPairingCode" =>
            /\ Len(calls') = 1
            /\ calls'[1].op = "requestPairingCode"
            /\ calls'[1].sock = ev'.sock
            /\ socks[ev'.sock].sessionId = ev'.sessionId]_vars

\* a pairing request has just made its requestPairingCode call on its own
\* handle while the registry holds a later handle of the same sessionId
C20_Witness ==
    /\ ev.op = "requestPairingCode"
    /\ calls # <<>>
    /\ calls[1].sock = ev.sock
    /\ ev.sessionId \in DOMAIN sessions
    /\ "sock" \in DOMAIN sessions[ev.sessionId]
    /\ sessions[ev.sessionId].sock > ev.sock

====
